---- MODULE Spec2Model ----
(***************************************************************************)
(* Model of pysynphot/tables.py: GraphTable.GetComponentsFromGT, the walk  *)
(* of the graph table that turns an observation mode (a list of keywords)  *)
(* into the lists of optical and thermal component names.                  *)
(*                                                                         *)
(* The graph table is the five parallel columns of GraphTable.  One call   *)
(* of GetComponentsFromGT(modes, innode) is modelled with one action per   *)
(* pass through the body of its while loop and one action for the checks   *)
(* that follow the loop.                                                   *)
(***************************************************************************)
EXTENDS Integers, Sequences, FiniteSets, TLC

VARIABLES
    keywords, innodes, outnodes, compnames, thcompnames, \* GraphTable columns
    modes, start_node,                                  \* arguments of the call
    components, thcomponents, outnode, innode,          \* locals of the call
    used_modes, count, component, thcomponent,
    pc, exc, result,                                    \* control, exception, return value
    visited, taken,                                     \* history: nodes walked, rows taken
    call2,                                              \* the locals of a second, concurrent call
    obj                                                 \* an object under construction

gtvars == <<keywords, innodes, outnodes, compnames, thcompnames>>
argvars == <<modes, start_node>>
vars == <<keywords, innodes, outnodes, compnames, thcompnames, modes, start_node,
          components, thcomponents, outnode, innode, used_modes, count,
          component, thcomponent, pc, exc, result, visited, taken, call2, obj>>

\* The arguments, locals and outcome of the first call.
call1vars == <<modes, start_node, components, thcomponents, outnode, innode,
               used_modes, count, component, thcomponent, pc, exc, result,
               visited, taken>>

-----------------------------------------------------------------------------
(* Bounds of the model *)

MaxEdges == 2       \* rows of an enumerated graph table
MaxModes == 2       \* keywords in the modes list
MaxLen == 6         \* entries kept of components / thcomponents

InNodes == 1..2
OutNodes == (-1)..2
StartNodes == {1}
Keywords == {"default", "acs", "k"}
Tokens == {"acs", "k"}
RowNames == <<"c1", "c2", "c3", "c4">>
ThRowNames == <<"t1", "t2", "t3", "t4">>

None == "None"      \* Python's None
NoExc == [type |-> "none"]
NoResult == <<>>
NoCall == [pc |-> "idle"]       \* no second call is running
NoObject == [pc |-> "idle"]     \* no object is being constructed

-----------------------------------------------------------------------------
(* The inputs *)

Rows == [innode : InNodes, outnode : OutNodes, keyword : Keywords]

\* An enumerated graph table: up to MaxEdges rows, each row with its own
\* component and thermal component name.
TableOf(t) ==
    [keywords    |-> [i \in DOMAIN t |-> t[i].keyword],
     innodes     |-> [i \in DOMAIN t |-> t[i].innode],
     outnodes    |-> [i \in DOMAIN t |-> t[i].outnode],
     compnames   |-> [i \in DOMAIN t |-> RowNames[i]],
     thcompnames |-> [i \in DOMAIN t |-> ThRowNames[i]]]

SmallTables == {TableOf(t) : t \in UNION {[1..n -> Rows] : n \in 0..MaxEdges}}

\* The four-edge graph of the documented scenario.
FourEdgeTable ==
    [keywords    |-> <<"default", "acs", "default", "default">>,
     innodes     |-> <<1, 1, 2, 3>>,
     outnodes    |-> <<2, 3, -1, -1>>,
     compnames   |-> <<"A", "B", "C", "D">>,
     thcompnames |-> <<"tA", "tB", "tC", "tD">>]

\* A malformed table: two rows leaving node 1 share the keyword "k", next to
\* a row for "acs" and a default row.
AmbiguousTable ==
    [keywords    |-> <<"k", "acs", "k", "default">>,
     innodes     |-> <<1, 1, 1, 1>>,
     outnodes    |-> <<2, 2, 0, 2>>,
     compnames   |-> <<"K1", "ACS", "K2", "DEF">>,
     thcompnames |-> <<"tK1", "tACS", "tK2", "tDEF">>]

Tables == SmallTables \cup {FourEdgeTable, AmbiguousTable}

\* The modes lists: every list of up to MaxModes tokens, and the documented
\* list with a keyword that no row carries.
ModeLists == UNION {[1..n -> Tokens] : n \in 0..MaxModes} \cup {<<"acs", "bogus">>}

-----------------------------------------------------------------------------
(* Helpers of the loop body *)

Range(s) == {s[i] : i \in DOMAIN s}

Min(S) == CHOOSE x \in S : \A y \in S : x <= y

\* inmodes = set(modes)
inmodes == Range(modes)

\* nodes = N.where(self.innodes == innode): the rows leaving node n
nodes(n) == {i \in DOMAIN innodes : innodes[i] = n}

\* N.where(self.keywords[nodes] == kw): the rows leaving n with keyword kw
Where(n, kw) == {i \in nodes(n) : keywords[i] = kw}

\* The provisional outcome of a step: the first 'default' row of the node,
\* or the -2 sentinel with no component.
DefaultStep(n) ==
    IF Where(n, "default") # {}
    THEN LET dfi == Min(Where(n, "default"))
         IN [outnode |-> outnodes[dfi], component |-> compnames[dfi],
             thcomponent |-> thcompnames[dfi], idx |-> dfi]
    ELSE [outnode |-> -2, component |-> None, thcomponent |-> None, idx |-> 0]

\* raise KeyError('%d matches found for %s' % (len(index[0]), mode))
KeyError(n, mode) == [type |-> "KeyError", matches |-> n, mode |-> mode]

\* raise ValueError("Incomplete obsmode %s" % str(modes))
IncompleteObsmode(m) == [type |-> "ValueError", msg |-> "Incomplete obsmode", arg |-> m]

\* raise ValueError("Warning: unused keywords %s" % unused)
UnusedKeywords(unused) == [type |-> "ValueError", msg |-> "unused keywords", arg |-> unused]

\* MatchModes with a break after the first mode that matches.
RECURSIVE MatchModes_Break(_, _, _, _)
MatchModes_Break(m, n, k, acc) ==
    IF k > Len(m) THEN acc
    ELSE LET mode == m[k]
             index == Where(n, mode)
         IN IF index = {} THEN MatchModes_Break(m, n, k + 1, acc)
            ELSE IF Cardinality(index) > 1
            THEN [acc EXCEPT !.used_modes = @ \cup {mode},
                             !.exc = KeyError(Cardinality(index), mode)]
            ELSE LET idx == Min(index)
                 IN [outnode |-> outnodes[idx], component |-> compnames[idx],
                     thcomponent |-> thcompnames[idx],
                     used_modes |-> acc.used_modes \cup {mode},
                     idx |-> idx, exc |-> NoExc]

\* MatchModes raising only from three matches on.
RECURSIVE MatchModes_OffByOne(_, _, _, _)
MatchModes_OffByOne(m, n, k, acc) ==
    IF k > Len(m) THEN acc
    ELSE LET mode == m[k]
             index == Where(n, mode)
         IN IF index = {} THEN MatchModes_OffByOne(m, n, k + 1, acc)
            ELSE IF Cardinality(index) > 2
            THEN [acc EXCEPT !.used_modes = @ \cup {mode},
                             !.exc = KeyError(Cardinality(index), mode)]
            ELSE LET idx == Min(index)
                 IN MatchModes_OffByOne(m, n, k + 1,
                        [outnode |-> outnodes[idx], component |-> compnames[idx],
                         thcomponent |-> thcompnames[idx],
                         used_modes |-> acc.used_modes \cup {mode},
                         idx |-> idx, exc |-> NoExc])

\* MatchModes taking the first of several matching rows without raising.
RECURSIVE MatchModes_PickFirst(_, _, _, _)
MatchModes_PickFirst(m, n, k, acc) ==
    IF k > Len(m) THEN acc
    ELSE LET mode == m[k]
             index == Where(n, mode)
         IN IF index = {} THEN MatchModes_PickFirst(m, n, k + 1, acc)
            ELSE LET idx == Min(index)
                 IN MatchModes_PickFirst(m, n, k + 1,
                        [outnode |-> outnodes[idx], component |-> compnames[idx],
                         thcomponent |-> thcompnames[idx],
                         used_modes |-> acc.used_modes \cup {mode},
                         idx |-> idx, exc |-> NoExc])

\* for mode in modes: ... from position k of the modes list m on.  acc carries
\* outnode, component, thcomponent, used_modes, the row taken and the exception
\* raised.
RECURSIVE MatchModes(_, _, _, _)
MatchModes(m, n, k, acc) ==
    IF k > Len(m) THEN acc
    ELSE LET mode == m[k]
             index == Where(n, mode)
         IN IF index = {} THEN MatchModes(m, n, k + 1, acc)
            ELSE IF Cardinality(index) > 1
            THEN [acc EXCEPT !.used_modes = @ \cup {mode},
                             !.exc = KeyError(Cardinality(index), mode)]
            ELSE LET idx == Min(index)
                 IN MatchModes(m, n, k + 1,
                        [outnode |-> outnodes[idx], component |-> compnames[idx],
                         thcomponent |-> thcompnames[idx],
                         used_modes |-> acc.used_modes \cup {mode},
                         idx |-> idx, exc |-> NoExc])

\* Body keeping the default row whenever the node has one: the modes are
\* marked used but do not override it.
Body_DefaultWins(m, n, used) ==
    LET d == DefaultStep(n)
        r == MatchModes(m, n, 1, [outnode |-> d.outnode, component |-> d.component,
                                  thcomponent |-> d.thcomponent, used_modes |-> used,
                                  idx |-> d.idx, exc |-> NoExc])
    IN IF d.idx # 0 /\ r.exc = NoExc
       THEN [r EXCEPT !.outnode = d.outnode, !.component = d.component,
                      !.thcomponent = d.thcomponent, !.idx = d.idx]
       ELSE r

\* The body of the loop at node n for the modes list m, up to the end of the
\* for loop.
Body(m, n, used) ==
    LET d == DefaultStep(n)
    IN MatchModes(m, n, 1, [outnode |-> d.outnode, component |-> d.component,
                            thcomponent |-> d.thcomponent, used_modes |-> used,
                            idx |-> d.idx, exc |-> NoExc])

\* components.append(component), keeping at most MaxLen entries
AppendTo(seq, c) == IF Len(seq) < MaxLen THEN Append(seq, c) ELSE seq

\* LoopExits with the break taken one pass later.
LoopExits_OffByOne(new_outnode, previous_outnode, new_count) ==
    \/ new_outnode = previous_outnode /\ new_count > 4
    \/ ~(new_outnode >= 0)

\* Whether the loop is left after a step: the break on count > 3, or the
\* while condition outnode >= 0 failing.
LoopExits(new_outnode, previous_outnode, new_count) ==
    \/ new_outnode = previous_outnode /\ new_count > 3
    \/ ~(new_outnode >= 0)

\* count += 1 when outnode == previous_outnode
NextCount(new_outnode, previous_outnode, cnt) ==
    IF new_outnode = previous_outnode THEN cnt + 1 ELSE cnt

\* Validate accepting -1 as a final outnode.
Validate_NegOne(m, out, inm, used) ==
    IF out < -1 THEN IncompleteObsmode(m)
    ELSE IF inm # used THEN UnusedKeywords(inm \ used) ELSE NoExc

\* Validate reporting the whole mode set as unused.
Validate_AllModes(m, out, inm, used) ==
    IF out < 0 THEN IncompleteObsmode(m)
    ELSE IF inm # used THEN UnusedKeywords(inm) ELSE NoExc

\* Validate checking for unused keywords before the final outnode.
Validate_UnusedFirst(m, out, inm, used) ==
    IF inm # used THEN UnusedKeywords(inm \ used)
    ELSE IF out < 0 THEN IncompleteObsmode(m) ELSE NoExc

\* Validate without the check for unused keywords.
Validate_SkipUnused(m, out, inm, used) ==
    IF out < 0 THEN IncompleteObsmode(m) ELSE NoExc

\* Validate treating a final outnode of 0 as negative.
Validate_ZeroNeg(m, out, inm, used) ==
    IF out <= 0 THEN IncompleteObsmode(m)
    ELSE IF inm # used THEN UnusedKeywords(inm \ used) ELSE NoExc

\* Validate without the check of the final outnode.
Validate_NoIncomplete(m, out, inm, used) ==
    IF inm # used THEN UnusedKeywords(inm \ used) ELSE NoExc

\* The checks after the loop: the exception raised, or NoExc for a return.
Validate(m, out, inm, used) ==
    IF out < 0 THEN IncompleteObsmode(m)
    ELSE IF inm # used THEN UnusedKeywords(inm \ used) ELSE NoExc

-----------------------------------------------------------------------------
(* A call as a value: the same code over a record of the call's locals *)

\* The locals of GetComponentsFromGT(m, s) on entry to the loop.
NewCall(m, s) ==
    [modes |-> m, start_node |-> s, components |-> <<>>, thcomponents |-> <<>>,
     outnode |-> 0, innode |-> s, used_modes |-> {}, count |-> 0,
     component |-> None, thcomponent |-> None,
     pc |-> "loop", exc |-> NoExc, result |-> NoResult]

\* One step of the call c: a pass through the loop body, the break, the
\* KeyError, or the checks after the loop.
CallStep(c) ==
    IF c.pc = "loop"
    THEN IF nodes(c.innode) = {}
         THEN [c EXCEPT !.pc = "post"]
         ELSE LET r == Body(c.modes, c.innode, c.used_modes)
                  cnt == NextCount(r.outnode, c.outnode, c.count)
              IN IF r.exc # NoExc
                 THEN [c EXCEPT !.pc = "raised", !.exc = r.exc,
                                !.used_modes = r.used_modes, !.outnode = r.outnode,
                                !.component = r.component,
                                !.thcomponent = r.thcomponent]
                 ELSE [c EXCEPT !.used_modes = r.used_modes, !.outnode = r.outnode,
                                !.component = r.component,
                                !.thcomponent = r.thcomponent,
                                !.components = AppendTo(@, r.component),
                                !.thcomponents = AppendTo(@, r.thcomponent),
                                !.innode = r.outnode,
                                !.count = cnt,
                                !.pc = IF LoopExits(r.outnode, c.outnode, cnt)
                                       THEN "post" ELSE "loop"]
    ELSE LET e == Validate(c.modes, c.outnode, Range(c.modes), c.used_modes)
         IN [c EXCEPT !.exc = e,
                      !.pc = IF e = NoExc THEN "returned" ELSE "raised",
                      !.result = IF e = NoExc THEN <<c.components, c.thcomponents>>
                                 ELSE NoResult]

-----------------------------------------------------------------------------
(* The state machine *)

Init ==
    /\ \E t \in Tables :
          /\ keywords = t.keywords
          /\ innodes = t.innodes
          /\ outnodes = t.outnodes
          /\ compnames = t.compnames
          /\ thcompnames = t.thcompnames
    /\ modes \in ModeLists
    /\ start_node \in StartNodes
    /\ components = <<>>
    /\ thcomponents = <<>>
    /\ outnode = 0
    /\ innode = start_node
    /\ used_modes = {}
    /\ count = 0
    /\ component = None      \* not yet bound; assigned before it is read
    /\ thcomponent = None
    /\ pc = "loop"
    /\ exc = NoExc
    /\ result = NoResult
    /\ visited = {}
    /\ taken = {}
    /\ call2 = NoCall
    /\ obj = NoObject

\* LoopBreak flagging the missing node with outnode -1, as GetNextNode does.
LoopBreak_NegOne ==
    /\ pc = "loop"
    /\ nodes(innode) = {}
    /\ pc' = "post"
    /\ outnode' = -1
    /\ UNCHANGED <<gtvars, argvars, components, thcomponents, innode,
                   used_modes, count, component, thcomponent, exc, result,
                   visited, taken>>
    /\ UNCHANGED <<call2, obj>>

\* No row has this innode: break.
LoopBreak ==
    /\ pc = "loop"
    /\ nodes(innode) = {}
    /\ pc' = "post"
    /\ UNCHANGED <<gtvars, argvars, components, thcomponents, outnode, innode,
                   used_modes, count, component, thcomponent, exc, result,
                   visited, taken>>
    /\ UNCHANGED <<call2, obj>>

\* A mode matches more than one row of the node: KeyError leaves the call.
LoopRaise ==
    /\ pc = "loop"
    /\ nodes(innode) # {}
    /\ LET r == Body(modes, innode, used_modes)
       IN /\ r.exc # NoExc
          /\ exc' = r.exc
          /\ used_modes' = r.used_modes
          /\ outnode' = r.outnode
          /\ component' = r.component
          /\ thcomponent' = r.thcomponent
    /\ pc' = "raised"
    /\ visited' = visited \cup {innode}
    /\ UNCHANGED <<gtvars, argvars, components, thcomponents, innode, count,
                   result, taken>>
    /\ UNCHANGED <<call2, obj>>

\* One full pass through the loop body: what it does to the locals.
LoopPass ==
    /\ pc = "loop"
    /\ nodes(innode) # {}
    /\ LET r == Body(modes, innode, used_modes)
       IN /\ r.exc = NoExc
          /\ used_modes' = r.used_modes
          /\ outnode' = r.outnode
          /\ component' = r.component
          /\ thcomponent' = r.thcomponent
          /\ components' = AppendTo(components, r.component)
          /\ thcomponents' = AppendTo(thcomponents, r.thcomponent)
          /\ innode' = r.outnode
          /\ count' = NextCount(r.outnode, outnode, count)
          /\ pc' = IF LoopExits(r.outnode, outnode, NextCount(r.outnode, outnode, count))
                   THEN "post" ELSE "loop"
          /\ taken' = IF r.idx = 0 THEN taken ELSE taken \cup {r.idx}
    /\ visited' = visited \cup {innode}

\* LoopIter marking the row it took in the keywords column of the table.
LoopIter_MarkUsed ==
    /\ LoopPass
    /\ keywords' = [i \in DOMAIN keywords |->
                       IF i \in taken' \ taken THEN "used" ELSE keywords[i]]
    /\ UNCHANGED <<innodes, outnodes, compnames, thcompnames, argvars, exc, result>>
    /\ UNCHANGED <<call2, obj>>

\* LoopIter with components kept in one list shared by all calls.
LoopIter_Shared ==
    /\ LoopPass
    /\ UNCHANGED <<gtvars, argvars, exc, result>>
    /\ call2' = [call2 EXCEPT !.components = AppendTo(@, component')]
    /\ UNCHANGED obj

\* One full pass through the loop body.
LoopIter ==
    /\ LoopPass
    /\ UNCHANGED <<gtvars, argvars, exc, result>>
    /\ UNCHANGED <<call2, obj>>

\* The checks after the loop and the return.
PostLoop ==
    /\ pc = "post"
    /\ LET e == Validate(modes, outnode, inmodes, used_modes)
       IN /\ exc' = e
          /\ pc' = IF e = NoExc THEN "returned" ELSE "raised"
          /\ result' = IF e = NoExc THEN <<components, thcomponents>> ELSE NoResult
    /\ UNCHANGED <<gtvars, argvars, components, thcomponents, outnode, innode,
                   used_modes, count, component, thcomponent, visited, taken>>
    /\ UNCHANGED <<call2, obj>>

Next == LoopBreak \/ LoopRaise \/ LoopIter \/ PostLoop

Spec == Init /\ [][Next]_vars

\* The interpreter keeps running a call that can take a step.
FairSpec == Init /\ [][Next]_vars /\ WF_vars(Next)

-----------------------------------------------------------------------------
(* Two calls on one GraphTable, their steps interleaved *)

\* The tables of the interleaved runs: the two named tables and every
\* enumerated table of two rows.
ConcTables == {t \in Tables : Len(t.keywords) \in {2, 4}}

Call2ModeLists == {<<>>, <<"k">>, <<"k", "acs">>}

ConcInit ==
    /\ \E t \in ConcTables :
          /\ keywords = t.keywords
          /\ innodes = t.innodes
          /\ outnodes = t.outnodes
          /\ compnames = t.compnames
          /\ thcompnames = t.thcompnames
    /\ modes \in ModeLists
    /\ start_node \in StartNodes
    /\ components = <<>>
    /\ thcomponents = <<>>
    /\ outnode = 0
    /\ innode = start_node
    /\ used_modes = {}
    /\ count = 0
    /\ component = None
    /\ thcomponent = None
    /\ pc = "loop"
    /\ exc = NoExc
    /\ result = NoResult
    /\ visited = {}
    /\ taken = {}
    /\ \E m \in Call2ModeLists, s \in InNodes : call2 = NewCall(m, s)
    /\ obj = NoObject

\* One step of the second call.
Call2Step ==
    /\ call2.pc \in {"loop", "post"}
    /\ call2' = CallStep(call2)
    /\ UNCHANGED <<gtvars, call1vars, obj>>

ConcNext == LoopBreak \/ LoopRaise \/ LoopIter \/ PostLoop \/ Call2Step

ConcSpec == ConcInit /\ [][ConcNext]_vars

-----------------------------------------------------------------------------
(* Construction of a CompTable or a GraphTable from a file *)

MaxRows == 2        \* rows of the table in a file

CompNames == {"A", "B"}
FileNames == {"a.fits", "b.fits"}
QueryNames == CompNames \cup {"Z"}
RawKeywords == {"ACS", "Default", "k"}

\* EXT 1 of a component table file: rows of COMPNAME, FILENAME.
CompFiles ==
    UNION {[1..n -> [compname : CompNames, filename : FileNames]] : n \in 0..MaxRows}

\* EXT 1 of a graph table file, and PRIMAREA of its primary header (None
\* when the header has no such card).
GraphFiles ==
    UNION {[1..n -> [keyword : RawKeywords, innode : InNodes, outnode : {2},
                     compname : {"A"}, thcompname : {"tA"}]] : n \in 0..MaxRows}

PrimAreas == {None, "45238.93416"}

\* str.lower() on the keywords of the files
Lower(kw) ==
    CASE kw = "ACS" -> "acs"
      [] kw = "Default" -> "default"
      [] OTHER -> kw

\* raise TypeError('initializing ... with ...File=None; possible bad/missing CDBS')
TypeError(cls) == [type |-> "TypeError", cls |-> cls]

\* the lookup of a name that was not loaded
NotFoundError(name) == [type |-> "NotFoundError", name |-> name]

\* An object whose __init__ has not run yet: no attribute is set.
NewObject(cls, file, data, primarea) ==
    [pc |-> "new", cls |-> cls, file |-> file, data |-> data, primarea |-> primarea,
     opened |-> FALSE, attrs |-> <<>>, compdict |-> <<>>, exc |-> NoExc,
     query |-> None, answer |-> None]

\* d[k] = v
DictSet(d, k, v) == [x \in DOMAIN d \cup {k} |-> IF x = k THEN v ELSE d[x]]

\* BuildDict keeping the first filename of a name that occurs in several rows.
RECURSIVE BuildDict_FirstWins(_, _, _, _)
BuildDict_FirstWins(names, files, i, d) ==
    IF i > Len(names) THEN d
    ELSE BuildDict_FirstWins(names, files, i + 1,
             IF names[i] \in DOMAIN d THEN d ELSE DictSet(d, names[i], files[i]))

\* for i in range(len(self.compnames)): compdict[self.compnames[i]] = self.filenames[i]
RECURSIVE BuildDict(_, _, _, _)
BuildDict(names, files, i, d) ==
    IF i > Len(names) THEN d
    ELSE BuildDict(names, files, i + 1, DictSet(d, names[i], files[i]))

\* CompTable.__init__ setting self.name before it looks at CFile.
CompTableCtor_NameFirst(o) ==
    IF o.file = None
    THEN [o EXCEPT !.pc = "raised", !.exc = TypeError("CompTable"),
                   !.attrs = [name |-> o.file]]
    ELSE LET names == [i \in DOMAIN o.data |-> o.data[i].compname]
             files == [i \in DOMAIN o.data |-> o.data[i].filename]
         IN [o EXCEPT !.opened = TRUE,
                      !.attrs = [compnames |-> names, filenames |-> files,
                                 name |-> o.file],
                      !.compdict = BuildDict(names, files, 1, <<>>),
                      !.pc = "done"]

\* CompTable.__init__(CFile)
CompTableCtor(o) ==
    IF o.file = None
    THEN [o EXCEPT !.pc = "raised", !.exc = TypeError("CompTable")]
    ELSE LET names == [i \in DOMAIN o.data |-> o.data[i].compname]
             files == [i \in DOMAIN o.data |-> o.data[i].filename]
         IN [o EXCEPT !.opened = TRUE,
                      !.attrs = [compnames |-> names, filenames |-> files,
                                 name |-> o.file],
                      !.compdict = BuildDict(names, files, 1, <<>>),
                      !.pc = "done"]

\* GraphTable.__init__(GFile)
GraphTableCtor(o) ==
    IF o.file = None
    THEN [o EXCEPT !.pc = "raised", !.exc = TypeError("GraphTable")]
    ELSE LET cols == [keywords    |-> [i \in DOMAIN o.data |-> Lower(o.data[i].keyword)],
                      innodes     |-> [i \in DOMAIN o.data |-> o.data[i].innode],
                      outnodes    |-> [i \in DOMAIN o.data |-> o.data[i].outnode],
                      compnames   |-> [i \in DOMAIN o.data |-> o.data[i].compname],
                      thcompnames |-> [i \in DOMAIN o.data |-> o.data[i].thcompname]]
         IN [o EXCEPT !.opened = TRUE,
                      !.attrs = IF o.primarea # None
                                THEN [x \in DOMAIN cols \cup {"primary_area"} |->
                                         IF x = "primary_area" THEN o.primarea ELSE cols[x]]
                                ELSE cols,
                      !.pc = "done"]

CtorInit ==
    /\ keywords = <<>> /\ innodes = <<>> /\ outnodes = <<>>
    /\ compnames = <<>> /\ thcompnames = <<>>
    /\ modes = <<>> /\ start_node = 1
    /\ components = <<>> /\ thcomponents = <<>>
    /\ outnode = 0 /\ innode = 1 /\ used_modes = {} /\ count = 0
    /\ component = None /\ thcomponent = None
    /\ pc = "idle" /\ exc = NoExc /\ result = NoResult
    /\ visited = {} /\ taken = {}
    /\ call2 = NoCall
    /\ \/ obj = NewObject("CompTable", None, <<>>, None)
       \/ \E d \in CompFiles : obj = NewObject("CompTable", "mtab$comp.fits", d, None)
       \/ obj = NewObject("GraphTable", None, <<>>, None)
       \/ \E d \in GraphFiles, a \in PrimAreas :
             obj = NewObject("GraphTable", "mtab$graph.fits", d, a)

\* CompTable(CFile)
CompTableInit ==
    /\ obj.pc = "new" /\ obj.cls = "CompTable"
    /\ obj' = CompTableCtor(obj)
    /\ UNCHANGED <<gtvars, call1vars, call2>>

\* GraphTable(GFile)
GraphTableInit ==
    /\ obj.pc = "new" /\ obj.cls = "GraphTable"
    /\ obj' = GraphTableCtor(obj)
    /\ UNCHANGED <<gtvars, call1vars, call2>>

\* filename_for(name) on a constructed CompTable: the filename the mapping
\* holds for the name, NotFoundError for a name it does not hold.
FilenameFor ==
    /\ obj.pc = "done" /\ obj.cls = "CompTable"
    /\ \E q \in QueryNames :
          obj' = [obj EXCEPT !.pc = "looked", !.query = q,
                             !.answer = IF q \in DOMAIN obj.compdict
                                        THEN obj.compdict[q] ELSE None,
                             !.exc = IF q \in DOMAIN obj.compdict
                                     THEN NoExc ELSE NotFoundError(q)]
    /\ UNCHANGED <<gtvars, call1vars, call2>>

CtorNext == CompTableInit \/ GraphTableInit \/ FilenameFor

CtorSpec == CtorInit /\ [][CtorNext]_vars

TypeOK ==
    /\ pc \in {"loop", "post", "returned", "raised", "idle"}
    /\ count \in 0..4
    /\ Len(components) <= MaxLen
    /\ used_modes \subseteq inmodes

-----------------------------------------------------------------------------
(* Properties *)

Terminated == pc \in {"returned", "raised"}

\* C1: every call terminates: from every graph table, modes list and start
\* node the loop is eventually left and the call returns or raises.
C1_Terminates == <>Terminated

-----------------------------------------------------------------------------
(* Vocabulary of the properties, read off the table directly *)

\* The rows leaving node n whose keyword is kw.
EdgesAt(n, kw) == {i \in DOMAIN innodes : innodes[i] = n /\ keywords[i] = kw}

HasEdges(n) == \E i \in DOMAIN innodes : innodes[i] = n
HasDefault(n) == EdgesAt(n, "default") # {}

\* The tokens of modes that are the keyword of a row leaving n.
Matching(n) == {m \in inmodes : EdgesAt(n, m) # {}}

\* Every matching token of n matches exactly one row.
UniqueMatches(n) == \A m \in Matching(n) : Cardinality(EdgesAt(n, m)) = 1

\* The position in modes of the last token that matches a row of n.
LastMatch(n) ==
    CHOOSE k \in DOMAIN modes :
        /\ modes[k] \in Matching(n)
        /\ \A j \in DOMAIN modes : modes[j] \in Matching(n) => j <= k

\* A full pass through the loop body at the current node.
Pass == pc = "loop" /\ HasEdges(innode) /\ pc' # "raised"

\* After the step, the outcome of the pass is row i.
StepIs(i) ==
    /\ outnode' = outnodes[i]
    /\ component' = compnames[i]
    /\ thcomponent' = thcompnames[i]
    /\ innode' = outnodes[i]
    /\ Len(components) < MaxLen =>
          /\ components' = Append(components, compnames[i])
          /\ thcomponents' = Append(thcomponents, thcompnames[i])

IsFourEdge ==
    /\ keywords = FourEdgeTable.keywords
    /\ innodes = FourEdgeTable.innodes
    /\ outnodes = FourEdgeTable.outnodes
    /\ compnames = FourEdgeTable.compnames
    /\ thcompnames = FourEdgeTable.thcompnames

-----------------------------------------------------------------------------

\* C2: at a node with outgoing edges, a completed step takes a row whose
\* keyword is a token of modes when some token matches a row of the node, and
\* otherwise the node's default row; the default row's values are the outcome
\* only when no token matches.
C2_StepChoice ==
    [][Pass =>
         IF Matching(innode) # {}
         THEN \E i \in DOMAIN innodes :
                 /\ innodes[i] = innode
                 /\ keywords[i] \in inmodes
                 /\ StepIs(i)
         ELSE HasDefault(innode) =>
                 \E i \in EdgesAt(innode, "default") : StepIs(i)]_vars

\* A node with a default row and a matched row has been passed, and the
\* component in hand is that of the matched row.
W2_MatchOverDefault ==
    /\ pc \in {"loop", "post"}
    /\ \E n \in visited :
          /\ HasDefault(n)
          /\ \E m \in Matching(n) : \E i \in EdgesAt(n, m) :
                 component = compnames[i] /\ outnode = outnodes[i]

\* C3 as stated: on the four-edge graph the call with modes ["acs"] returns
\* components [B, D] and the call with no modes returns [A, C].
C3_FourEdgeReturns ==
    (IsFourEdge /\ start_node = 1 /\ Terminated) =>
        /\ modes = <<"acs">> => (pc = "returned" /\ result[1] = <<"B", "D">>)
        /\ modes = <<>> => (pc = "returned" /\ result[1] = <<"A", "C">>)

\* C3 amended: on the four-edge graph the call with modes ["acs"] accumulates
\* exactly [B, D] and the call with no modes exactly [A, C], and then each
\* raises ValueError 'Incomplete obsmode', the final outnode -1 being negative.
C3_FourEdgeRaises ==
    (IsFourEdge /\ start_node = 1 /\ Terminated) =>
        /\ modes = <<"acs">> =>
              /\ components = <<"B", "D">>
              /\ thcomponents = <<"tB", "tD">>
              /\ outnode = -1
              /\ pc = "raised" /\ exc = IncompleteObsmode(modes)
              /\ result = NoResult
        /\ modes = <<>> =>
              /\ components = <<"A", "C">>
              /\ thcomponents = <<"tA", "tC">>
              /\ outnode = -1
              /\ pc = "raised" /\ exc = IncompleteObsmode(modes)
              /\ result = NoResult

W3_FourEdgeDone ==
    /\ IsFourEdge /\ start_node = 1 /\ modes = <<"acs">>
    /\ Terminated
    /\ components = <<"B", "D">>

\* The tokens of modes that are the keyword of no row leaving a visited node.
Unmatched == {m \in inmodes : \A n \in visited : EdgesAt(n, m) = {}}

\* C4 as stated: a call whose modes hold a token that is the keyword of no
\* row at any visited node ends with ValueError 'unused keywords' carrying
\* exactly that token.
C4_UnusedRaised ==
    Terminated => \A m \in Unmatched : exc = UnusedKeywords({m})

\* C4 amended: when the loop was left with a non-negative outnode (no
\* KeyError, no negative final outnode) and modes hold tokens that are the
\* keyword of no row at any visited node, the call ends with ValueError
\* 'unused keywords' carrying exactly the set of all those tokens.
C4_UnusedAfterLoop ==
    (Terminated /\ exc.type # "KeyError" /\ outnode >= 0 /\ Unmatched # {}) =>
        /\ pc = "raised"
        /\ exc = UnusedKeywords(Unmatched)
        /\ result = NoResult

W4_UnusedToken ==
    /\ Terminated
    /\ visited # {}
    /\ outnode >= 0
    /\ Unmatched = {"bogus"}
    /\ "acs" \in used_modes

\* A node with outgoing edges, none 'default' and none matching a token.
DeadNode(n) == HasEdges(n) /\ ~HasDefault(n) /\ Matching(n) = {}

\* C5: once the walk has passed a node with outgoing edges but neither a
\* default row nor a row matching a token, the loop is left with a negative
\* outnode and the call raises ValueError 'Incomplete obsmode' carrying the
\* modes list as given; nothing is returned.
C5_DeadNodeRaises ==
    \A n \in visited :
        DeadNode(n) =>
            \/ pc = "post" /\ outnode < 0 /\ exc = NoExc /\ result = NoResult
            \/ pc = "raised" /\ exc = IncompleteObsmode(modes) /\ result = NoResult

W5_DeadNodeRaised ==
    /\ pc = "raised"
    /\ \E n \in visited : DeadNode(n)
    /\ inmodes # used_modes

\* A node with two or more rows that share a keyword which is a token of modes.
AmbiguousNode(n) == \E k \in inmodes : Cardinality(EdgesAt(n, k)) >= 2

\* C6: the pass through a node with two or more rows sharing a keyword that
\* is a token of modes ends the call with KeyError for such a token, whatever
\* the other tokens match; no row of the node is taken.
C6_AmbiguousRaises ==
    \A n \in visited :
        AmbiguousNode(n) =>
            /\ pc = "raised"
            /\ exc.type = "KeyError"
            /\ exc.matches = Cardinality(EdgesAt(n, exc.mode))
            /\ exc.matches >= 2
            /\ n = innode
            /\ result = NoResult

W6_AmbiguousRaised ==
    /\ pc = "raised"
    /\ \E n \in visited :
          /\ AmbiguousNode(n)
          /\ \E m \in Matching(n) : Cardinality(EdgesAt(n, m)) = 1

\* C7: when two or more distinct tokens each match one row of the current
\* node, the step takes the row matched by the token that comes last in
\* modes, and every matching token is marked used.
C7_LastMatchWins ==
    [][(pc = "loop" /\ Cardinality(Matching(innode)) >= 2 /\ UniqueMatches(innode)) =>
          /\ pc' # "raised"
          /\ \E i \in EdgesAt(innode, modes[LastMatch(innode)]) : StepIs(i)
          /\ Matching(innode) \subseteq used_modes']_vars

W7_TwoMatches ==
    /\ pc \in {"loop", "post"}
    /\ \E n \in visited :
          /\ Cardinality(Matching(n)) >= 2
          /\ UniqueMatches(n)
          /\ Matching(n) \subseteq used_modes
          /\ \E i \in EdgesAt(n, modes[LastMatch(n)]) : component = compnames[i]

\* C8: the two lists have equal length in every state of the call, and a
\* call that returns has used every token of modes and returns two lists of
\* equal length.
C8_ParallelLists ==
    /\ Len(components) = Len(thcomponents)
    /\ pc = "returned" =>
          /\ used_modes = inmodes
          /\ \A k \in DOMAIN modes : modes[k] \in used_modes
          /\ Len(result[1]) = Len(result[2])

W8_ReturnedWithModes ==
    /\ pc = "returned"
    /\ Cardinality(inmodes) = 2
    /\ Len(result[1]) >= 2

\* The nodes that can be reached from start_node along rows of the table.
Succ(S) == S \cup {outnodes[i] : i \in {j \in DOMAIN innodes : innodes[j] \in S}}

RECURSIVE ReachFrom(_)
ReachFrom(S) == IF Succ(S) = S THEN S ELSE ReachFrom(Succ(S))

DefaultEverywhere == \A n \in ReachFrom({start_node}) : HasDefault(n)

\* C9: with no modes, on a table where every node reachable from start_node
\* has a default row, the call returns, never raises, and takes default rows
\* only.
C9_DefaultsSucceed ==
    (modes = <<>> /\ DefaultEverywhere) =>
        /\ <>(pc = "returned")
        /\ [](pc # "raised")
        /\ [](\A i \in taken : keywords[i] = "default")

\* C10 as stated: in a call that returns, every token of modes is the keyword
\* of exactly one of the rows taken.
C10_OneTakenEdge ==
    pc = "returned" =>
        \A m \in inmodes : Cardinality({i \in taken : keywords[i] = m}) = 1

\* C10 amended: in a call that returns, every token of modes is, at one
\* visited node at least, the keyword of exactly one row leaving that node.
C10_MatchedOnPath ==
    pc = "returned" =>
        \A m \in inmodes : \E n \in visited : Cardinality(EdgesAt(n, m)) = 1

\* A call has returned although the row matched by one of its tokens was not
\* taken.
W10_ReturnedOverridden ==
    /\ pc = "returned"
    /\ \E m \in inmodes : {i \in taken : keywords[i] = m} = {}

-----------------------------------------------------------------------------

\* C15: count is incremented exactly in the passes whose new outnode equals
\* the outnode before the pass; the loop is left in the pass in which count
\* becomes 4, so count never exceeds 4; and a call stopped this way returns
\* the accumulated lists when every token of modes was used.
C15_StallCount ==
    /\ [][Pass =>
             /\ count' = IF outnode' = outnode THEN count + 1 ELSE count
             /\ (count' = 4 /\ count = 3) => pc' = "post"
             /\ (pc' = "post" /\ outnode' >= 0) => count' = 4]_vars
    /\ [](count <= 4)
    /\ []((Terminated /\ count = 4) =>
             IF used_modes = inmodes
             THEN pc = "returned" /\ result = <<components, thcomponents>>
             ELSE pc = "raised" /\ exc = UnusedKeywords(inmodes \ used_modes))

\* A call left its loop on the fourth stall and returned.
W15_StalledReturn ==
    /\ pc = "returned"
    /\ count = 4
    /\ inmodes # {}
    /\ Len(result[1]) >= 4

\* C16: at a node with no outgoing edges the loop is left with nothing
\* appended and nothing else changed, and the call then returns the lists
\* accumulated so far when every token of modes was used; from a start node
\* without edges and with no modes it returns two empty lists.
C16_NoEdgesStops ==
    /\ [][(pc = "loop" /\ ~HasEdges(innode)) =>
             /\ pc' = "post"
             /\ components' = components /\ thcomponents' = thcomponents
             /\ outnode' = outnode /\ used_modes' = used_modes]_vars
    /\ []((pc \in {"post", "returned", "raised"} /\ exc.type # "KeyError"
            /\ ~HasEdges(innode) /\ innode >= 0) =>
             /\ outnode >= 0
             /\ (Terminated /\ used_modes = inmodes) =>
                    pc = "returned" /\ result = <<components, thcomponents>>
             /\ (Terminated /\ visited = {} /\ modes = <<>>) =>
                    pc = "returned" /\ result = <<(<<>>), (<<>>)>>)

\* A walk of two edges ran off the graph and the call returned its two
\* components.
W16_RanOffGraph ==
    /\ pc = "returned"
    /\ ~HasEdges(innode)
    /\ count = 0
    /\ Len(result[1]) = 2
    /\ inmodes # {}

\* C17: of the two checks after the loop the final outnode comes first: a
\* negative final outnode raises 'Incomplete obsmode' even when tokens of
\* modes are unused, and 'unused keywords' is raised only with a final
\* outnode that is not negative.
C17_ValidationOrder ==
    (Terminated /\ exc.type # "KeyError") =>
        /\ outnode < 0 => (pc = "raised" /\ exc = IncompleteObsmode(modes))
        /\ (pc = "raised" /\ exc.msg = "unused keywords") => outnode >= 0

\* 'Incomplete obsmode' was raised after an edge to -1 while a token of modes
\* was unused.
W17_IncompleteWithUnused ==
    /\ pc = "raised"
    /\ exc = IncompleteObsmode(modes)
    /\ outnode = -1
    /\ inmodes \ used_modes # {}

\* C18 as stated: 'Incomplete obsmode' is raised only after the walk passed a
\* node with outgoing edges but neither a default row nor a matching row.
C18_OnlyDeadNode ==
    exc = IncompleteObsmode(modes) => \E n \in visited : DeadNode(n)

\* C18 amended: 'Incomplete obsmode' is raised only when the last pass either
\* went through a node with outgoing edges but neither a default row nor a
\* matching row (outnode -2), or took a row of the table whose outnode is
\* negative.
C18_DeadNodeOrNegativeEdge ==
    exc = IncompleteObsmode(modes) =>
        \/ outnode = -2 /\ component = None /\ \E n \in visited : DeadNode(n)
        \/ \E i \in taken :
              /\ outnodes[i] < 0
              /\ outnode = outnodes[i]
              /\ component = compnames[i]

\* 'Incomplete obsmode' was raised although every visited node had a default
\* or a matching row.
W18_RaisedAfterRealEdge ==
    /\ exc = IncompleteObsmode(modes)
    /\ visited # {}
    /\ \A n \in visited : ~DeadNode(n)

\* C19: count is incremented only in a pass that takes a self-loop, a row
\* whose outnode is the node the pass started from.
C19_OnlySelfLoops ==
    [][(Pass /\ count' = count + 1) => outnode' = innode]_vars

\* The row of the table with component name c.
RowNamed(c) == CHOOSE i \in DOMAIN compnames : compnames[i] = c

\* C20: the lists of a call that returns hold no None; they are, in order,
\* the component and thermal component of the rows of one connected path: the
\* first row leaves start_node, each later row leaves the outnode of the row
\* before it.
C20_ConnectedPath ==
    pc = "returned" =>
        /\ Len(result[1]) = Len(result[2])
        /\ \A k \in DOMAIN result[1] :
              /\ result[1][k] # None /\ result[2][k] # None
              /\ result[1][k] \in Range(compnames)
              /\ thcompnames[RowNamed(result[1][k])] = result[2][k]
              /\ innodes[RowNamed(result[1][k])] =
                    IF k = 1 THEN start_node
                    ELSE outnodes[RowNamed(result[1][k - 1])]
        /\ {RowNamed(result[1][k]) : k \in DOMAIN result[1]} = taken

\* A call returned a path of two different rows.
W20_ReturnedPath ==
    /\ pc = "returned"
    /\ Len(result[1]) >= 2
    /\ result[1][1] # result[1][2]

-----------------------------------------------------------------------------

\* The outcome of the call GetComponentsFromGT(m, s) run on its own, to the
\* end or for at most MaxLen + 2 steps.
RECURSIVE RunCall(_, _)
RunCall(c, fuel) ==
    IF c.pc \in {"returned", "raised"} \/ fuel = 0 THEN c
    ELSE RunCall(CallStep(c), fuel - 1)

Alone(m, s) ==
    LET c == RunCall(NewCall(m, s), MaxLen + 2)
    IN <<c.pc, c.exc, c.result>>

\* C11: with the steps of two calls on one table interleaved in any order,
\* each call ends with the outcome (the lists returned or the exception) it
\* has when run alone, and no step of one call changes a local of the other.
C11_NoInterference ==
    /\ [](Terminated => <<pc, exc, result>> = Alone(modes, start_node))
    /\ [](call2.pc \in {"returned", "raised"} =>
             <<call2.pc, call2.exc, call2.result>> = Alone(call2.modes, call2.start_node))
    /\ [][call2' # call2 => UNCHANGED call1vars]_vars
    /\ [][call1vars' # call1vars => call2' = call2]_vars

\* The first call has returned a list of two components while the second
\* call, with other modes, is still in its loop with one pass done.
W11_Interleaved ==
    /\ pc = "returned"
    /\ Len(result[1]) >= 2
    /\ call2.pc = "loop"
    /\ Len(call2.components) = 1
    /\ call2.modes # modes

\* C12: no step of a call changes a column of the graph table, whether the
\* call goes on, returns or raises; the outcome of a call is the one fixed
\* by modes, start_node and the table.
C12_TableUnchanged ==
    /\ [][/\ keywords' = keywords
           /\ innodes' = innodes
           /\ outnodes' = outnodes
           /\ compnames' = compnames
           /\ thcompnames' = thcompnames]_vars
    /\ [](Terminated => result = Alone(modes, start_node)[3])

\* A call has raised KeyError on the four-row table, after rows were read.
W12_RaisedOnTable ==
    /\ pc = "raised"
    /\ exc.type = "KeyError"
    /\ keywords = AmbiguousTable.keywords
    /\ visited # {}

-----------------------------------------------------------------------------

\* The attributes a finished __init__ leaves on the object.
FullAttrs(o) ==
    IF o.cls = "CompTable" THEN {"compnames", "filenames", "name"}
    ELSE {"keywords", "innodes", "outnodes", "compnames", "thcompnames"}
         \cup (IF o.primarea # None THEN {"primary_area"} ELSE {})

\* C13: constructing a CompTable or a GraphTable with None as file name
\* raises TypeError before the file is opened; a construction that raised
\* has set no attribute, and one that ended has set all of them.
C13_NoneSourceRaises ==
    /\ (obj.pc # "new" /\ obj.file = None) =>
          /\ obj.pc = "raised"
          /\ obj.exc = TypeError(obj.cls)
          /\ ~obj.opened
    /\ obj.pc = "raised" => DOMAIN obj.attrs = {}
    /\ obj.pc \in {"done", "looked"} =>
          /\ obj.file # None
          /\ DOMAIN obj.attrs = FullAttrs(obj)

\* A CompTable(None) has raised.
W13_NoneRaised ==
    /\ obj.pc = "raised"
    /\ obj.cls = "CompTable"
    /\ obj.file = None

\* The rows of the file that carry the name q.
RowsNamed(o, q) == {i \in DOMAIN o.data : o.data[i].compname = q}

Max(S) == CHOOSE x \in S : \A y \in S : y <= x

====
